---------------------------- MODULE Spec2Model ----------------------------
(***************************************************************************)
(* A model of kimxuanhong/go-postgres: the environment-driven Config       *)
(* (Config.go) and the data-access client over gorm (Postgres.go, in its   *)
(* two copies: postgres/Postgres.go with type Postgres, and the copy with  *)
(* type Client that also honours Config.Debug).                            *)
(*                                                                         *)
(* The client is a pass-through to gorm and database/sql.  Those libraries *)
(* are modelled by the behaviour the wrapper relies on: a table of rows,   *)
(* statements that fail on a closed pool or on a driver fault, First's     *)
(* ErrRecordNotFound, and Transaction's begin / commit / rollback.         *)
(***************************************************************************)
EXTENDS Naturals, Sequences, FiniteSets, TLC

VARIABLES
    env,          \* the process environment: key -> [set, val]
    cfg,          \* <<>> before NewConfig, <<Config>> after
    dsn,          \* the last string GetDSN returned ("" before any call)
    warned,       \* getEnvAsBool logged "Invalid value for ..."
    handle,       \* <<>> while no client exists, <<[debug, cfgDebug]>> after
    sqlClosed,    \* sql.DB.closed of the client's pool
    closeCalled,  \* Close() has returned on the client
    rows,         \* the table: id -> NoRow or the row's value
    pc,           \* DeleteOne's position: "idle" or "found"
    doModel,      \* the model DeleteOne's lookup filled (a row id, 0: zero value)
    doQuery,      \* the filter of the DeleteOne in flight ("" if none)
    interleaved,  \* another call ran between DeleteOne's two statements
    raced,        \* which of DeleteOne's races have been observed so far
    tx,           \* the transaction in flight: [open, rows, aborted]
    last          \* the last call that returned, with its inputs and results

cfgVars == <<env, cfg, dsn, warned>>
dbVars == <<handle, sqlClosed, closeCalled, rows, pc, doModel, doQuery,
            interleaved, raced, tx, last>>
vars == <<env, cfg, dsn, warned, handle, sqlClosed, closeCalled, rows, pc,
          doModel, doQuery, interleaved, raced, tx, last>>

-----------------------------------------------------------------------------
(* Config.go *)

StringKeys == <<"DB_HOST", "DB_PORT", "DB_USER", "DB_PASSWORD", "DB_NAME",
                "DB_SCHEMA", "DB_SSL_MODE">>
DebugKey == "DB_DEBUG_MODE"
Keys == {StringKeys[i] : i \in 1..Len(StringKeys)} \cup {DebugKey}

\* The value each string variable takes when the environment sets it to
\* something: one distinct value per key, so that a swap of two fields shows.
CustomVal(k) ==
    CASE k = "DB_HOST" -> "h1"
      [] k = "DB_PORT" -> "6543"
      [] k = "DB_USER" -> "u1"
      [] k = "DB_PASSWORD" -> "p1"
      [] k = "DB_NAME" -> "d1"
      [] k = "DB_SCHEMA" -> "s1"
      [] k = "DB_SSL_MODE" -> "require"

\* The values DB_DEBUG_MODE is drawn from: parseable and not.
DebugVals == {"", "true", "false", "1", "0", "T", "F", "TRUE", "False",
              "yes", "tRuE", "2"}

Unset == [set |-> FALSE, val |-> ""]
SetTo(v) == [set |-> TRUE, val |-> v]

\* os.Getenv: the value, or "" when the variable is not present.
Getenv(e, k) == IF e[k].set THEN e[k].val ELSE ""

\* strconv.ParseBool: [ok, val].
ParseBool(str) ==
    IF str \in {"1", "t", "T", "TRUE", "true", "True"}
    THEN [ok |-> TRUE, val |-> TRUE]
    ELSE IF str \in {"0", "f", "F", "FALSE", "false", "False"}
    THEN [ok |-> TRUE, val |-> FALSE]
    ELSE [ok |-> FALSE, val |-> FALSE]

\* getEnv with os.LookupEnv: a variable set to "" keeps the empty value.
getEnv_presentEmpty(e, key, defaultValue) ==
    IF ~e[key].set THEN defaultValue ELSE e[key].val

getEnv(e, key, defaultValue) ==
    LET value == Getenv(e, key)
    IN  IF value = "" THEN defaultValue ELSE value

\* getEnvAsBool returning false, not the default, for an unparseable value.
getEnvAsBool_falseOnError(e, key, defaultVal) ==
    LET valStr == Getenv(e, key)
        p == ParseBool(valStr)
    IN  IF valStr = "" THEN [val |-> defaultVal, warn |-> FALSE]
        ELSE IF ~p.ok THEN [val |-> FALSE, warn |-> TRUE]
        ELSE [val |-> p.val, warn |-> FALSE]

\* [val, warn]: the flag, and whether the warning was logged.
getEnvAsBool(e, key, defaultVal) ==
    LET valStr == Getenv(e, key)
        p == ParseBool(valStr)
    IN  IF valStr = "" THEN [val |-> defaultVal, warn |-> FALSE]
        ELSE IF ~p.ok THEN [val |-> defaultVal, warn |-> TRUE]
        ELSE [val |-> p.val, warn |-> FALSE]

NewConfig(e) ==
    [Host     |-> getEnv(e, "DB_HOST", "localhost"),
     Port     |-> getEnv(e, "DB_PORT", "5432"),
     User     |-> getEnv(e, "DB_USER", "postgres"),
     Password |-> getEnv(e, "DB_PASSWORD", "postgres"),
     DBName   |-> getEnv(e, "DB_NAME", "postgres"),
     Schema   |-> getEnv(e, "DB_SCHEMA", "public"),
     SSLMode  |-> getEnv(e, "DB_SSL_MODE", "disable"),
     Debug    |-> getEnvAsBool(e, "DB_DEBUG_MODE", TRUE).val]

GetDSN(c) ==
    "host=" \o c.Host \o " port=" \o c.Port \o " user=" \o c.User
    \o " password=" \o c.Password \o " dbname=" \o c.DBName
    \o " search_path=" \o c.Schema \o " sslmode=" \o c.SSLMode

\* Every environment the model draws: each string variable unset, set to the
\* empty string or set to its custom value; DB_DEBUG_MODE unset or set to one
\* of DebugVals.
StringSetting(k, c) ==
    CASE c = "unset" -> Unset
      [] c = "empty" -> SetTo("")
      [] c = "custom" -> SetTo(CustomVal(k))
DebugSettings == {Unset} \cup {SetTo(v) : v \in DebugVals}
EnvOf(choice, d) ==
    [k \in Keys |-> IF k = DebugKey THEN d ELSE StringSetting(k, choice[k])]
AllEnvs ==
    {EnvOf(choice, d) :
        choice \in [Keys \ {DebugKey} -> {"unset", "empty", "custom"}],
        d \in DebugSettings}
\* The environments of the client's specification: only the debug flag varies.
ClientEnvs ==
    {EnvOf([k \in Keys \ {DebugKey} |-> "unset"], d) :
        d \in {Unset, SetTo("false")}}

NoConfig == <<>>

\* cfg := NewConfig()
LoadConfig ==
    /\ cfg = NoConfig
    /\ cfg' = <<NewConfig(env)>>
    /\ warned' = getEnvAsBool(env, "DB_DEBUG_MODE", TRUE).warn
    /\ UNCHANGED <<env, dsn, dbVars>>

\* dsn := cfg.GetDSN()
CallGetDSN ==
    /\ cfg # NoConfig
    /\ dsn' = GetDSN(cfg[1])
    /\ UNCHANGED <<env, cfg, warned, dbVars>>

-----------------------------------------------------------------------------
(* The database, as gorm and database/sql present it to the client *)

\* The largest primary key of the table.
MaxId == 2
Ids == 1..MaxId
\* The values of the one column filters and updates are about; a query is
\* "col = v", named by v.
Vals == {"a", "b"}
NoRow == "-"
EmptyTable == [id \in Ids |-> NoRow]

Nil == "nil"
ErrRecordNotFound == "record not found"
ErrDBClosed == "sql: database is closed"
ErrDriver == "driver: bad connection"
ErrDuplicate == "duplicate key value violates unique constraint"
ErrMissingWhereClause == "WHERE conditions required"
ErrTxAborted == "commit unexpectedly resulted in rollback"
ErrOpen == "failed to connect"
ErrInvalidDB == "invalid db"
ErrFn == "fn failed"

Matching(r, q) == {id \in Ids : r[id] = q}
MinOf(S) == CHOOSE x \in S : \A y \in S : x <= y

\* What every statement does first: take a connection from the pool.
ConnErr(closed, fault) ==
    IF closed THEN ErrDBClosed ELSE IF fault = "driver" THEN ErrDriver ELSE Nil

Stmt(fn, verbose) == [fn |-> fn, verbose |-> verbose]

\* A statement's outcome: the error, the table after it, and its outputs.
Outcome(err, r) ==
    [err |-> err, rows |-> r, model |-> 0, found |-> {}, count |-> 0,
     flag |-> FALSE]

\* db.Where(q).Find(&models)
gormFind(r, closed, fault, q) ==
    LET e == ConnErr(closed, fault)
    IN  IF e # Nil THEN Outcome(e, r)
        ELSE [Outcome(Nil, r) EXCEPT !.found = Matching(r, q)]

\* db.Where(q).First(&model): the matching row of least primary key.
gormFirst(r, closed, fault, q) ==
    LET e == ConnErr(closed, fault)
    IN  IF e # Nil THEN Outcome(e, r)
        ELSE IF Matching(r, q) = {} THEN Outcome(ErrRecordNotFound, r)
        ELSE [Outcome(Nil, r) EXCEPT !.model = MinOf(Matching(r, q)),
                                     !.found = {MinOf(Matching(r, q))}]

\* db.Create(&model), the model carrying its primary key.
gormCreate(r, closed, fault, id, v) ==
    LET e == ConnErr(closed, fault)
    IN  IF e # Nil THEN Outcome(e, r)
        ELSE IF r[id] # NoRow THEN Outcome(ErrDuplicate, r)
        ELSE [Outcome(Nil, [r EXCEPT ![id] = v]) EXCEPT !.model = id]

\* db.Model(&model).Where(q).Updates(col = v)
gormUpdates(r, closed, fault, q, v) ==
    LET e == ConnErr(closed, fault)
    IN  IF e # Nil THEN Outcome(e, r)
        ELSE Outcome(Nil, [id \in Ids |-> IF r[id] = q THEN v ELSE r[id]])

\* db.Where(q).Delete(&model), the model a zero value.
gormDeleteWhere(r, closed, fault, q) ==
    LET e == ConnErr(closed, fault)
    IN  IF e # Nil THEN Outcome(e, r)
        ELSE Outcome(Nil, [id \in Ids |-> IF r[id] = q THEN NoRow ELSE r[id]])

\* db.Delete(&model): by the model's primary key alone; no row affected is
\* no error; a zero primary key leaves the statement without conditions.
gormDeleteModel(r, closed, fault, id) ==
    LET e == ConnErr(closed, fault)
    IN  IF id = 0 THEN Outcome(ErrMissingWhereClause, r)
        ELSE IF e # Nil THEN Outcome(e, r)
        ELSE Outcome(Nil, [r EXCEPT ![id] = NoRow])

\* db.Model(&model).Where(q).Count(&count): count stays 0 on an error.
gormCount(r, closed, fault, q) ==
    LET e == ConnErr(closed, fault)
    IN  IF e # Nil THEN Outcome(e, r)
        ELSE [Outcome(Nil, r) EXCEPT !.count = Cardinality(Matching(r, q))]

-----------------------------------------------------------------------------
(* Postgres.go: the client's methods, as what each returns *)

Select(r, closed, fault, q) == gormFind(r, closed, fault, q)

\* SelectOne with Find in place of First: no row is no error.
SelectOne_usesFind(r, closed, fault, q) == gormFind(r, closed, fault, q)

SelectOne(r, closed, fault, q) == gormFirst(r, closed, fault, q)

Insert(r, closed, fault, id, v) == gormCreate(r, closed, fault, id, v)

Update(r, closed, fault, q, v) == gormUpdates(r, closed, fault, q, v)

Delete(r, closed, fault, q) == gormDeleteWhere(r, closed, fault, q)

Count(r, closed, fault, q) == gormCount(r, closed, fault, q)

\* Exists with count >= 0 in place of count > 0.
Exists_notNegative(r, closed, fault, q) ==
    LET c == Count(r, closed, fault, q)
    IN  [c EXCEPT !.flag = (c.count >= 0)]

Exists(r, closed, fault, q) ==
    LET c == Count(r, closed, fault, q)
    IN  [c EXCEPT !.flag = (c.count > 0)]

NoHandle == <<>>
Handle(debug, cfgDebug) == <<[debug |-> debug, cfgDebug |-> cfgDebug]>>

\* The calls NewPostgres makes up to and including the one that fails.
OpenCalls(fault) ==
    CASE fault = "open" -> <<Stmt("gorm.Open", FALSE)>>
      [] fault = "db" -> <<Stmt("gorm.Open", FALSE), Stmt("db.DB", FALSE)>>
      [] OTHER -> <<Stmt("gorm.Open", FALSE), Stmt("db.DB", FALSE),
                    Stmt("sqlDB.Ping", FALSE)>>

OpenErr(fault) ==
    CASE fault = "open" -> ErrOpen
      [] fault = "db" -> ErrInvalidDB
      [] fault = "ping" -> ErrDriver
      [] OTHER -> Nil

\* NewPostgres returning the handle although the ping failed.
NewPostgres_ignoresPing(c, fault) ==
    [handle |-> IF fault \in {"none", "ping"} THEN Handle(FALSE, c.Debug)
                ELSE NoHandle,
     err |-> OpenErr(fault),
     calls |-> OpenCalls(fault)]

\* postgres/Postgres.go: cfg.Debug is not read.
NewPostgres(c, fault) ==
    [handle |-> IF fault = "none" THEN Handle(FALSE, c.Debug) ELSE NoHandle,
     err |-> OpenErr(fault),
     calls |-> OpenCalls(fault)]

\* The copy with type Client: db = db.Debug() when cfg.Debug.
NewPostgresClient(c, fault) ==
    [handle |-> IF fault = "none" THEN Handle(c.Debug, c.Debug) ELSE NoHandle,
     err |-> OpenErr(fault),
     calls |-> OpenCalls(fault)]

\* Close returning nil without closing the pool.
Close_leavesOpen(closed, fault) ==
    [err |-> Nil, closed |-> closed]

\* p.db.DB() cannot fail here: NewPostgres returned the handle only after the
\* same call succeeded.  sql.DB.Close marks the pool closed even when closing
\* a connection fails, and is a no-op on a closed pool.
Close(closed, fault) ==
    [err |-> IF ~closed /\ fault = "driver" THEN ErrDriver ELSE Nil,
     closed |-> TRUE]

\* WithTransaction running fn on the plain handle: nothing is rolled back.
WithTransaction_noRollback(r, t, fnErr, fault, applied) ==
    IF fnErr # Nil THEN [err |-> fnErr, rows |-> t.rows]
    ELSE IF t.aborted THEN [err |-> ErrTxAborted, rows |-> r]
    ELSE IF fault = "commit"
    THEN [err |-> ErrDriver, rows |-> IF applied THEN t.rows ELSE r]
    ELSE [err |-> Nil, rows |-> t.rows]

\* p.db.Transaction(fn), from fn's return on: rollback on fnErr, else commit.
\* A commit of a transaction a failed statement aborted rolls back; a commit
\* the driver fails leaves the outcome to the server (applied or not).
WithTransaction(r, t, fnErr, fault, applied) ==
    IF fnErr # Nil THEN [err |-> fnErr, rows |-> r]
    ELSE IF t.aborted THEN [err |-> ErrTxAborted, rows |-> r]
    ELSE IF fault = "commit"
    THEN [err |-> ErrDriver, rows |-> IF applied THEN t.rows ELSE r]
    ELSE [err |-> Nil, rows |-> t.rows]

-----------------------------------------------------------------------------
(* The calls as steps *)

NoTx == [open |-> FALSE, rows |-> EmptyTable, aborted |-> FALSE]

\* The record of a call that returned.
Ret(op, q, fault, out, calls) ==
    [op |-> op, q |-> q, fault |-> fault, err |-> out.err,
     model |-> out.model, found |-> out.found, count |-> out.count,
     flag |-> out.flag, fnErr |-> Nil, wrote |-> FALSE, calls |-> calls]

\* The driver faults a statement may meet; a closed pool hands out no
\* connection, so no statement on it reaches the driver.
Faults == IF sqlClosed THEN {"none"} ELSE {"none", "driver"}
TxFaults == {"none", "driver"}

\* A single-statement call on the client, by any goroutine.
Crud(op, fn, q, fault, out) ==
    /\ handle # NoHandle
    /\ ~tx.open
    /\ rows' = out.rows
    /\ last' = Ret(op, q, fault, out, <<Stmt(fn, handle[1].debug)>>)
    /\ interleaved' = (interleaved \/ pc = "found")
    /\ UNCHANGED <<cfgVars, handle, sqlClosed, closeCalled, pc, doModel,
                   doQuery, raced, tx>>

OpenFrame(res, fault) ==
    /\ handle' = res.handle
    /\ sqlClosed' = FALSE
    /\ dsn' = GetDSN(cfg[1])
    /\ last' = [Ret("NewPostgres", "", fault, Outcome(res.err, rows),
                    res.calls) EXCEPT !.flag = (res.handle # NoHandle)]
    /\ UNCHANGED <<env, cfg, warned, closeCalled, rows, pc, doModel, doQuery,
                   interleaved, raced, tx>>

\* pg, err := NewPostgres(cfg), of postgres/Postgres.go
OpenPostgres ==
    /\ cfg # NoConfig
    /\ handle = NoHandle
    /\ \E fault \in {"none", "open", "db", "ping"} :
          OpenFrame(NewPostgres(cfg[1], fault), fault)

\* pg, err := NewPostgres(cfg), of the copy with type Client
OpenClient ==
    /\ cfg # NoConfig
    /\ handle = NoHandle
    /\ \E fault \in {"none", "open", "db", "ping"} :
          OpenFrame(NewPostgresClient(cfg[1], fault), fault)

CallSelect ==
    \E q \in Vals, fault \in Faults :
        Crud("Select", "Find", q, fault, Select(rows, sqlClosed, fault, q))

CallSelectOne ==
    \E q \in Vals, fault \in Faults :
        Crud("SelectOne", "First", q, fault,
             SelectOne(rows, sqlClosed, fault, q))

CallInsert ==
    \E id \in Ids, v \in Vals, fault \in Faults :
        Crud("Insert", "Create", "", fault,
             Insert(rows, sqlClosed, fault, id, v))

CallUpdate ==
    \E q \in Vals, v \in Vals, fault \in Faults :
        Crud("Update", "Updates", q, fault,
             Update(rows, sqlClosed, fault, q, v))

CallDelete ==
    \E q \in Vals, fault \in Faults :
        Crud("Delete", "Delete", q, fault, Delete(rows, sqlClosed, fault, q))

CallCount ==
    \E q \in Vals, fault \in Faults :
        Crud("Count", "Count", q, fault, Count(rows, sqlClosed, fault, q))

CallExists ==
    \E q \in Vals, fault \in Faults :
        Crud("Exists", "Count", q, fault, Exists(rows, sqlClosed, fault, q))

\* db := pg.DB() / pg.Instance()
CallInstance ==
    /\ handle # NoHandle
    /\ ~tx.open
    /\ last' = Ret("DB", "", "none", Outcome(Nil, rows), <<>>)
    /\ interleaved' = (interleaved \/ pc = "found")
    /\ UNCHANGED <<cfgVars, handle, sqlClosed, closeCalled, rows, pc, doModel,
                   doQuery, raced, tx>>

CallClose ==
    /\ handle # NoHandle
    /\ ~tx.open
    /\ \E fault \in Faults :
          LET res == Close(sqlClosed, fault)
          IN  /\ sqlClosed' = res.closed
              /\ last' = Ret("Close", "", fault, Outcome(res.err, rows),
                             <<Stmt("sqlDB.Close", FALSE)>>)
    /\ closeCalled' = TRUE
    /\ interleaved' = (interleaved \/ pc = "found")
    /\ UNCHANGED <<cfgVars, handle, rows, pc, doModel, doQuery, raced, tx>>

\* What a DeleteOne that returned nil did, for the record of its races.
RaceOf(r, id, q, mixed) ==
    IF r[id] = NoRow THEN {"gone"}
    ELSE IF r[id] # q THEN {"stale"}
    ELSE IF ~mixed THEN {"clean"}
    ELSE {}

\* DeleteOne going on to the delete whatever the lookup returned.
DeleteOneLookup_ignoresError ==
    /\ handle # NoHandle
    /\ ~tx.open
    /\ pc = "idle"
    /\ \E q \in Vals, fault \in Faults :
          LET out == gormFirst(rows, sqlClosed, fault, q)
          IN  /\ pc' = "found"
              /\ doModel' = out.model
              /\ doQuery' = q
              /\ last' = Ret("First", q, fault, out,
                             <<Stmt("First", handle[1].debug)>>)
    /\ interleaved' = FALSE
    /\ UNCHANGED <<cfgVars, handle, sqlClosed, closeCalled, rows, raced, tx>>

\* DeleteOne, first statement: tx := First(model); if tx.Error != nil, return.
DeleteOneLookup ==
    /\ handle # NoHandle
    /\ ~tx.open
    /\ pc = "idle"
    /\ \E q \in Vals, fault \in Faults :
          LET out == gormFirst(rows, sqlClosed, fault, q)
          IN  IF out.err # Nil
              THEN /\ last' = Ret("DeleteOne", q, fault, out,
                                  <<Stmt("First", handle[1].debug)>>)
                   /\ UNCHANGED <<pc, doModel, doQuery>>
              ELSE /\ pc' = "found"
                   /\ doModel' = out.model
                   /\ doQuery' = q
                   /\ last' = Ret("First", q, fault, out,
                                  <<Stmt("First", handle[1].debug)>>)
    /\ interleaved' = FALSE
    /\ UNCHANGED <<cfgVars, handle, sqlClosed, closeCalled, rows, raced, tx>>

\* DeleteOne deleting by the filter in place of the model's identity.
DeleteOneDelete_byFilter ==
    /\ pc = "found"
    /\ \E fault \in Faults :
          LET out == gormDeleteWhere(rows, sqlClosed, fault, doQuery)
          IN  /\ rows' = out.rows
              /\ last' = [Ret("DeleteOne", doQuery, fault, out,
                              <<Stmt("First", handle[1].debug),
                                Stmt("Delete", handle[1].debug)>>)
                            EXCEPT !.model = doModel, !.flag = interleaved]
              /\ raced' = IF out.err = Nil
                          THEN raced \cup
                               RaceOf(rows, doModel, doQuery, interleaved)
                          ELSE raced
    /\ pc' = "idle"
    /\ doModel' = 0
    /\ doQuery' = ""
    /\ interleaved' = FALSE
    /\ UNCHANGED <<cfgVars, handle, sqlClosed, closeCalled, tx>>

\* DeleteOne, second statement: return Delete(model).Error
DeleteOneDelete ==
    /\ pc = "found"
    /\ \E fault \in Faults :
          LET out == gormDeleteModel(rows, sqlClosed, fault, doModel)
          IN  /\ rows' = out.rows
              /\ last' = [Ret("DeleteOne", doQuery, fault, out,
                              <<Stmt("First", handle[1].debug),
                                Stmt("Delete", handle[1].debug)>>)
                            EXCEPT !.model = doModel, !.flag = interleaved]
              /\ raced' = IF out.err = Nil
                          THEN raced \cup
                               RaceOf(rows, doModel, doQuery, interleaved)
                          ELSE raced
    /\ pc' = "idle"
    /\ doModel' = 0
    /\ doQuery' = ""
    /\ interleaved' = FALSE
    /\ UNCHANGED <<cfgVars, handle, sqlClosed, closeCalled, tx>>

\* WithTransaction, up to fn's call: Begin; fn is not called when it fails.
\* The model runs one multi-statement call at a time, the transaction alone.
TxBegin ==
    /\ handle # NoHandle
    /\ ~tx.open
    /\ pc = "idle"
    /\ \E fault \in Faults :
          LET e == ConnErr(sqlClosed, fault)
          IN  IF e # Nil
              THEN /\ last' = Ret("WithTransaction", "", fault,
                                  Outcome(e, rows), <<Stmt("Begin", FALSE)>>)
                   /\ UNCHANGED tx
              ELSE /\ tx' = [open |-> TRUE, rows |-> rows, aborted |-> FALSE]
                   /\ last' = Ret("Begin", "", fault, Outcome(Nil, rows),
                                  <<Stmt("Begin", FALSE)>>)
    /\ UNCHANGED <<cfgVars, handle, sqlClosed, closeCalled, rows, pc, doModel,
                   doQuery, interleaved, raced>>

\* fn writes through the transactional handle.  A statement that fails
\* aborts the transaction: every later statement in it fails.
TxApply(out) ==
    /\ tx.open
    /\ tx' = IF tx.aborted THEN tx
             ELSE [open |-> TRUE, rows |-> out.rows,
                   aborted |-> (out.err # Nil)]
    /\ UNCHANGED <<cfgVars, handle, sqlClosed, closeCalled, rows, pc, doModel,
                   doQuery, interleaved, raced, last>>

TxStmt ==
    \/ \E fault \in TxFaults, id \in Ids, v \in Vals :
          TxApply(gormCreate(tx.rows, FALSE, fault, id, v))
    \/ \E fault \in TxFaults, q \in Vals, v \in Vals :
          TxApply(gormUpdates(tx.rows, FALSE, fault, q, v))
    \/ \E fault \in TxFaults, q \in Vals :
          TxApply(gormDeleteWhere(tx.rows, FALSE, fault, q))

\* fn returns fnErr and Transaction commits or rolls back.
TxEnd ==
    /\ tx.open
    /\ \E fnErr \in {Nil, ErrFn}, fault \in {"none", "commit"},
          applied \in BOOLEAN :
          LET res == WithTransaction(rows, tx, fnErr, fault, applied)
          IN  /\ rows' = res.rows
              /\ last' = [Ret("WithTransaction", "", fault,
                              Outcome(res.err, rows),
                              <<Stmt("Begin", FALSE),
                                Stmt(IF fnErr = Nil THEN "Commit"
                                     ELSE "Rollback", FALSE)>>)
                            EXCEPT !.fnErr = fnErr, !.flag = TRUE,
                                   !.wrote = (tx.rows # rows)]
    /\ tx' = NoTx
    /\ UNCHANGED <<cfgVars, handle, sqlClosed, closeCalled, pc, doModel,
                   doQuery, interleaved, raced>>

-----------------------------------------------------------------------------
(* Specifications *)

InitClient ==
    /\ handle = NoHandle
    /\ sqlClosed = FALSE
    /\ closeCalled = FALSE
    /\ rows = EmptyTable
    /\ pc = "idle"
    /\ doModel = 0
    /\ doQuery = ""
    /\ interleaved = FALSE
    /\ raced = {}
    /\ tx = NoTx
    /\ last = Ret("none", "", "none", Outcome(Nil, EmptyTable), <<>>)

InitNoConfig ==
    /\ cfg = NoConfig
    /\ dsn = ""
    /\ warned = FALSE

\* The program: the configuration is loaded, a client opened and used.
Init ==
    /\ env \in ClientEnvs
    /\ InitNoConfig
    /\ InitClient

Next ==
    \/ LoadConfig
    \/ OpenPostgres
    \/ OpenClient
    \/ CallSelect
    \/ CallSelectOne
    \/ CallInsert
    \/ CallUpdate
    \/ CallDelete
    \/ DeleteOneLookup
    \/ DeleteOneDelete
    \/ CallCount
    \/ CallExists
    \/ TxBegin
    \/ TxStmt
    \/ TxEnd
    \/ CallInstance
    \/ CallClose

Spec == Init /\ [][Next]_vars

\* Config.go alone, under every environment.
InitConfig ==
    /\ env \in AllEnvs
    /\ InitNoConfig
    /\ InitClient

NextConfig ==
    \/ LoadConfig
    \/ CallGetDSN

SpecConfig == InitConfig /\ [][NextConfig]_vars

-----------------------------------------------------------------------------
(* Properties *)

CrudOps == {"Select", "SelectOne", "Insert", "Update", "Delete", "DeleteOne",
            "Count", "Exists"}

LifeState ==
    IF handle = NoHandle THEN "Unopened"
    ELSE IF sqlClosed THEN "Closed"
    ELSE "Open"

NumCalls(fn) ==
    Cardinality({i \in 1..Len(last.calls) : last.calls[i].fn = fn})

\* C1: the client goes Unopened -> Open -> Closed and never back; once Close
\* has returned, every Select, SelectOne, Insert, Update, Delete, DeleteOne,
\* Count or Exists that returns, returns an error, and no row changes.
C1_ClosedIsFinal ==
    [][/\ (closeCalled' /\ last'.op \in CrudOps => last'.err # Nil)
       /\ (closeCalled => closeCalled' /\ rows' = rows /\ LifeState' = "Closed")
       /\ (LifeState' # LifeState =>
              \/ LifeState = "Unopened" /\ LifeState' = "Open"
              \/ LifeState = "Open" /\ LifeState' = "Closed")]_vars

C1_Witness ==
    /\ closeCalled
    /\ last.op = "DeleteOne"
    /\ last.err = ErrDBClosed
    /\ rows # EmptyTable

\* C2: NewPostgres opens once and pings at most once; any failure (open, the
\* sql handle, the ping) gives an error and no handle; a handle with a nil
\* error is returned only when the open and the ping both succeeded.
C2_OpenFailsFast ==
    last.op = "NewPostgres" =>
        /\ NumCalls("gorm.Open") = 1
        /\ NumCalls("sqlDB.Ping") <= 1
        /\ (last.fault # "none" =>
               last.err # Nil /\ handle = NoHandle /\ ~last.flag)
        /\ (last.fault = "none" =>
               /\ last.err = Nil /\ handle # NoHandle /\ last.flag
               /\ NumCalls("sqlDB.Ping") = 1)
        /\ (last.fault = "open" => NumCalls("sqlDB.Ping") = 0)

C2_Witness ==
    /\ last.op = "NewPostgres"
    /\ last.fault = "ping"
    /\ last.err = ErrDriver
    /\ handle = NoHandle
    /\ NumCalls("sqlDB.Ping") = 1

\* C3, as claimed: when fn returns an error the table is as before the call
\* and that error is returned; when fn returns nil every write it made
\* through the transactional handle is in the table.
C3_AllOrNothing ==
    [][tx.open /\ ~tx'.open =>
          /\ (last'.fnErr # Nil => rows' = rows /\ last'.err = last'.fnErr)
          /\ (last'.fnErr = Nil => rows' = tx.rows)]_vars

\* C3, amended: when fn returns an error the table is as before the call and
\* that error is returned; when WithTransaction returns nil, fn returned nil
\* and every write it made through the transactional handle is in the table;
\* when fn returns nil and the commit fails, the commit's error is returned
\* and the table holds all of fn's writes or none.
C3_AllOrNothingWhenCommitted ==
    [][tx.open /\ ~tx'.open =>
          /\ (last'.fnErr # Nil => rows' = rows /\ last'.err = last'.fnErr)
          /\ (last'.err = Nil => last'.fnErr = Nil /\ rows' = tx.rows)
          /\ (last'.fnErr = Nil /\ last'.err # Nil =>
                 rows' \in {rows, tx.rows})]_vars

C3_Witness ==
    /\ last.op = "WithTransaction"
    /\ last.fnErr = ErrFn
    /\ last.err = ErrFn
    /\ last.wrote
    /\ rows # EmptyTable

\* C4: when DeleteOne's lookup returns an error (not found or any other),
\* DeleteOne returns that error, issues no delete and changes no row; a
\* filter matching no row gives the not-found signal.
C4_LookupErrorReturned ==
    [][/\ (pc = "idle" /\ pc' = "idle" /\ last'.op = "DeleteOne" =>
              LET f == gormFirst(rows, sqlClosed, last'.fault, last'.q)
              IN  /\ f.err # Nil
                  /\ last'.err = f.err
                  /\ rows' = rows
                  /\ Len(last'.calls) = 1
                  /\ last'.calls[1].fn = "First"
                  /\ (/\ Matching(rows, last'.q) = {}
                      /\ ~sqlClosed
                      /\ last'.fault = "none"
                      => last'.err = ErrRecordNotFound))
       /\ (pc = "idle" /\ pc' = "found" =>
              /\ Matching(rows, doQuery') # {}
              /\ ~sqlClosed
              /\ gormFirst(rows, sqlClosed, last'.fault, doQuery').err = Nil
              /\ rows' = rows)]_vars

C4_Witness ==
    /\ last.op = "DeleteOne"
    /\ last.err = ErrRecordNotFound
    /\ Len(last.calls) = 1
    /\ rows # EmptyTable
    /\ pc = "idle"

\* C5: SelectOne returns nil exactly when a row matches and the lookup did
\* not fail; with no matching row and no failure it returns the not-found
\* signal, which no infrastructure failure returns.
C5_NotFoundIsDistinct ==
    last.op = "SelectOne" =>
        LET failed == sqlClosed \/ last.fault = "driver"
            m == Matching(rows, last.q)
        IN  /\ (last.err = Nil <=> (m # {} /\ ~failed))
            /\ (m = {} /\ ~failed => last.err = ErrRecordNotFound)
            /\ (failed => last.err \in {ErrDBClosed, ErrDriver})
            /\ (last.err = ErrRecordNotFound => m = {} /\ ~failed)
            /\ (last.err = Nil => last.model = MinOf(m))

C5_Witness ==
    /\ last.op = "SelectOne"
    /\ last.err = ErrRecordNotFound
    /\ rows # EmptyTable
    /\ ~sqlClosed

\* C6: Exists returns (count > 0) for the count Count returns, and Count's
\* error: false for no matching row, true for one or more, and false with
\* the error when Count fails.
C6_ExistsIsCountPositive ==
    last.op = "Exists" =>
        LET c == Count(rows, sqlClosed, last.fault, last.q)
            n == Cardinality(Matching(rows, last.q))
        IN  /\ last.flag = (c.count > 0)
            /\ last.err = c.err
            /\ last.count = c.count
            /\ (last.err = Nil => last.flag = (n > 0))
            /\ (last.err # Nil => ~last.flag)
            /\ (last.err # Nil <=> (sqlClosed \/ last.fault = "driver"))

C6_Witness ==
    /\ last.op = "Exists"
    /\ last.flag
    /\ last.count >= 2
    /\ last.err = Nil

\* C7: a client opened with the config's debug flag set logs every statement
\* it issues verbosely; one opened with the flag not set does not.
C7_DebugEnablesLogging ==
    handle # NoHandle =>
        /\ handle[1].debug = handle[1].cfgDebug
        /\ (last.op \in CrudOps =>
               \A i \in 1..Len(last.calls) :
                   last.calls[i].verbose = handle[1].cfgDebug)

\* The defaults, as documented.
DefaultOf(k) ==
    CASE k = "DB_HOST" -> "localhost"
      [] k = "DB_PORT" -> "5432"
      [] k = "DB_USER" -> "postgres"
      [] k = "DB_PASSWORD" -> "postgres"
      [] k = "DB_NAME" -> "postgres"
      [] k = "DB_SCHEMA" -> "public"
      [] k = "DB_SSL_MODE" -> "disable"

FieldOf(c, k) ==
    CASE k = "DB_HOST" -> c.Host
      [] k = "DB_PORT" -> c.Port
      [] k = "DB_USER" -> c.User
      [] k = "DB_PASSWORD" -> c.Password
      [] k = "DB_NAME" -> c.DBName
      [] k = "DB_SCHEMA" -> c.Schema
      [] k = "DB_SSL_MODE" -> c.SSLMode

StringKeySet == Keys \ {DebugKey}

\* C8: each string field is its variable's value when that is set and not
\* empty, else the default; with no variable set to a value GetDSN returns
\* the default descriptor exactly, and with all set, the fields in the same
\* order.
C8_EnvOrDefault ==
    /\ cfg # NoConfig =>
          \A k \in StringKeySet :
              FieldOf(cfg[1], k) =
                  IF env[k].set /\ env[k].val # "" THEN env[k].val
                  ELSE DefaultOf(k)
    /\ (dsn # "" /\ \A k \in StringKeySet : ~env[k].set \/ env[k].val = "") =>
          dsn = "host=localhost port=5432 user=postgres password=postgres dbname=postgres search_path=public sslmode=disable"
    /\ (dsn # "" /\ \A k \in StringKeySet : env[k] = SetTo(CustomVal(k))) =>
          dsn = "host=h1 port=6543 user=u1 password=p1 dbname=d1 search_path=s1 sslmode=require"

C8_Witness ==
    /\ cfg # NoConfig
    /\ env["DB_HOST"] = SetTo("")
    /\ \A k \in StringKeySet \ {"DB_HOST"} : env[k] = Unset
    /\ dsn = "host=localhost port=5432 user=postgres password=postgres dbname=postgres search_path=public sslmode=disable"

\* C9: Debug is the parsed value of DB_DEBUG_MODE when that parses as a
\* boolean and true (the default) when it is unset, empty or unparseable;
\* the warning is logged exactly for a non-empty unparseable value; no other
\* field depends on DB_DEBUG_MODE.
C9_DebugFallsBack ==
    cfg # NoConfig =>
        LET v == Getenv(env, DebugKey)
            isTrue == v \in {"1", "t", "T", "TRUE", "true", "True"}
            isFalse == v \in {"0", "f", "F", "FALSE", "false", "False"}
        IN  /\ cfg[1].Debug = (IF isFalse THEN FALSE ELSE TRUE)
            /\ warned = (v # "" /\ ~isTrue /\ ~isFalse)
            /\ \A d \in DebugSettings, k \in StringKeySet :
                   FieldOf(NewConfig([env EXCEPT ![DebugKey] = d]), k) =
                       FieldOf(cfg[1], k)

C9_Witness ==
    /\ cfg # NoConfig
    /\ env[DebugKey] = SetTo("yes")
    /\ cfg[1].Debug = TRUE
    /\ warned
    /\ cfg[1].Host = "h1"

\* C10: DeleteOne deletes by the looked-up model's identity alone: returning
\* nil, it has removed that row and no other, whatever the row then held;
\* with no call between its two statements, that row is the first row
\* matching the filter.
C10_DeleteByIdentity ==
    [][pc = "found" /\ pc' = "idle" /\ last'.err = Nil =>
          /\ rows' = [rows EXCEPT ![doModel] = NoRow]
          /\ (~interleaved =>
                 /\ rows[doModel] = doQuery
                 /\ doModel = MinOf(Matching(rows, doQuery))
                 /\ rows' # rows)]_vars

\* Both races have happened (a row deleted that no longer matched the
\* filter; nil returned with the row already gone), and so has a DeleteOne
\* with nothing in between.
C10_Witness ==
    raced = {"gone", "stale", "clean"}

====
